---- MODULE Spec2Model ----
(***************************************************************************)
(* Model of the AI Research Analyst (src/final_bot.py, src/app.py):        *)
(*   - ResearchAnalystModel.ingest_data and the persisted ingestion ledger *)
(*     (processed_files.json), run by the request threads of the Flask     *)
(*     server on the single shared analyst instance;                       *)
(*   - _clean_json_response, the brace-span extraction;                    *)
(*   - the analytical orchestrators (ask_question, generate_swot_analysis, *)
(*     track_narrative_evolution, generate_investment_memo,                *)
(*     get_market_context).                                                *)
(***************************************************************************)
EXTENDS Integers, Sequences, FiniteSets, TLC

VARIABLES
    \* ---- ingestion (shared state) ----
    ledgerFile,     \* content of processed_files.json: a set of origin identifiers
    fileKind,       \* what processed_files.json is: see FileKinds
    index,          \* vector store: origin -> number of segments tagged with it
    adds,           \* history: origin -> number of documents of it added to the index
    calls,          \* history: number of ingest_data calls started
    \* ---- ingestion (per request thread) ----
    pc,             \* position of the thread inside ingest_data
    processed_files,\* the ledger as loaded at line 69
    new_urls,       \* line 70
    new_pdfs,       \* line 71
    documents,      \* line 77: sequence of [source, chunks]
    pos,            \* loop index into new_urls / new_pdfs
    okAcq,          \* history: origins acquired with text by this call
    failAcq,        \* history: origins whose acquisition raised or gave no text in this call
    wrote,          \* history: origins whose segments this call added to the index
    \* ---- _clean_json_response ----
    raw_response,   \* the input text
    cleaned,        \* the returned text
    cpc,            \* "in" before the call, "out" after
    \* ---- orchestrators ----
    op,             \* the orchestrator last called ("none" before any call)
    args,           \* <<source1, source2>> of the last track_narrative_evolution
    retrieved,      \* segments retrieved and passed to generation in the last call
    slot1,          \* segments rendered in 'Document 1 (Older Context)'
    slot2,          \* segments rendered in 'Document 2 (Newer Context)'
    genCalls,       \* number of generation calls made by the last call
    newsCalls,      \* number of news-search calls made by the last call
    answer,         \* raw text the model returned in the last call
    result,         \* what the last call returned
    newsFail,       \* the news-search call of the last call that raised (0: none)
    chartWrites,    \* number of times the last call wrote chart.png
    response        \* what the endpoint sent to the client

ingestVars == <<ledgerFile, fileKind, index, adds, calls, pc, processed_files, new_urls,
                new_pdfs, documents, pos, okAcq, failAcq, wrote>>
parseVars == <<raw_response, cleaned, cpc>>
queryVars == <<op, args, retrieved, slot1, slot2, genCalls, newsCalls,
               answer, result, newsFail, chartWrites, response>>
vars == <<ingestVars, parseVars, queryVars>>

(***************************************************************************)
(* Bounds                                                                  *)
(***************************************************************************)
MaxCalls == 2       \* ingest_data calls per behaviour
MaxUrls == 2        \* length of a request's urls list
MaxPdfs == 1        \* length of a request's pdfs list
MaxChunks == 2      \* segments one document splits into

Origins == {"a", "b"}
Threads == {1, 2}

SeqsUpTo(S, n) == UNION {[1..k -> S] : k \in 0..n}
Range(s) == {s[i] : i \in 1..Len(s)}

(***************************************************************************)
(* ingest_data                                                             *)
(***************************************************************************)
\* [x for x in xs if x not in processed]: order and repetitions are kept
RECURSIVE NotIn(_, _)
NotIn(xs, processed) ==
    IF xs = <<>> THEN <<>>
    ELSE LET rest == NotIn(Tail(xs), processed)
         IN IF Head(xs) \in processed THEN rest ELSE <<Head(xs)>> \o rest

\* processed_files.json is missing, or holds a JSON list of strings, or text
\* that is no JSON, or a JSON object (ledgerFile: its keys), or a JSON number
\* or null
FileKinds == {"missing", "list", "undecodable", "object", "scalar"}

\* lines 52-57: <<"ok", the set loaded>>, or <<"raise", {}>>.  set(json.load(f))
\* of a list is its elements and of an object its keys; of a number or null it
\* raises TypeError, which line 57 does not catch
_load_processed_files ==
    IF fileKind \in {"missing", "undecodable"} THEN <<"ok", {}>>
    ELSE IF fileKind = "scalar" THEN <<"raise", {}>>
    ELSE <<"ok", ledgerFile>>

\* a loop without the handler of lines 89 and 100: the error ends the call
OnAcquireErrorAbort(next) == "raised"

\* `except Exception: pass`: the loop goes on with the next origin
OnAcquireError(next) == next

\* where the thread goes after the item at position i of a loop over xs
AfterUrl(t, i) ==
    IF i < Len(new_urls[t]) THEN "urls"
    ELSE IF new_pdfs[t] # <<>> THEN "pdfs" ELSE "write"
AfterPdf(t, i) == IF i < Len(new_pdfs[t]) THEN "pdfs" ELSE "write"

\* the set the call persists at line 111
SavedLedger(t) ==
    processed_files[t] \cup Range(new_urls[t]) \cup Range(new_pdfs[t])

\* the sources of a sequence of documents
Sources(docs) == {docs[i].source : i \in 1..Len(docs)}
\* the chunks split_documents gives for the documents of origin o
ChunksOf(docs, o) ==
    LET RECURSIVE Sum(_)
        Sum(i) == IF i = 0 THEN 0
                  ELSE Sum(i - 1) + (IF docs[i].source = o THEN docs[i].chunks ELSE 0)
    IN Sum(Len(docs))
DocsOf(docs, o) == Cardinality({i \in 1..Len(docs) : docs[i].source = o})

IngestInit ==
    /\ ledgerFile = {}
    /\ fileKind = "missing"
    /\ index = [o \in Origins |-> 0]
    /\ adds = [o \in Origins |-> 0]
    /\ calls = 0
    /\ pc = [t \in Threads |-> "idle"]
    /\ processed_files = [t \in Threads |-> {}]
    /\ new_urls = [t \in Threads |-> <<>>]
    /\ new_pdfs = [t \in Threads |-> <<>>]
    /\ documents = [t \in Threads |-> <<>>]
    /\ pos = [t \in Threads |-> 0]
    /\ okAcq = [t \in Threads |-> {}]
    /\ failAcq = [t \in Threads |-> {}]
    /\ wrote = [t \in Threads |-> {}]

\* lines 64-77: load the ledger, keep the origins not in it, return early if none
Begin(t, urls, pdfs) ==
    /\ pc[t] = "idle"
    /\ calls < MaxCalls
    /\ calls' = calls + 1
    /\ LET loaded == _load_processed_files
           processed == loaded[2]
           nu == IF loaded[1] = "raise" THEN <<>> ELSE NotIn(urls, processed)
           np == IF loaded[1] = "raise" THEN <<>> ELSE NotIn(pdfs, processed)
       IN /\ processed_files' = [processed_files EXCEPT ![t] = processed]
          /\ new_urls' = [new_urls EXCEPT ![t] = nu]
          /\ new_pdfs' = [new_pdfs EXCEPT ![t] = np]
          /\ pc' = [pc EXCEPT ![t] =
                      IF loaded[1] = "raise" THEN "raised"
                      ELSE IF nu = <<>> /\ np = <<>> THEN "returned"
                      ELSE IF nu # <<>> THEN "urls" ELSE "pdfs"]
    /\ documents' = [documents EXCEPT ![t] = <<>>]
    /\ pos' = [pos EXCEPT ![t] = 1]
    /\ okAcq' = [okAcq EXCEPT ![t] = {}]
    /\ failAcq' = [failAcq EXCEPT ![t] = {}]
    /\ wrote' = [wrote EXCEPT ![t] = {}]
    /\ UNCHANGED <<ledgerFile, fileKind, index, adds>>

\* lines 81-89: one iteration of the URL loop.  outcome: "error" (download or
\* parse raised), "empty" (article.text is empty), "text" splitting into n chunks
AcquireUrl(t, outcome) ==
    /\ pc[t] = "urls"
    /\ LET url == new_urls[t][pos[t]]
           next == AfterUrl(t, pos[t])
       IN /\ IF outcome[1] = "error"
             THEN /\ pc' = [pc EXCEPT ![t] = OnAcquireError(next)]
                  /\ failAcq' = [failAcq EXCEPT ![t] = @ \cup {url}]
                  /\ UNCHANGED <<documents, okAcq>>
             ELSE IF outcome[1] = "empty"
             THEN /\ pc' = [pc EXCEPT ![t] = next]
                  /\ failAcq' = [failAcq EXCEPT ![t] = @ \cup {url}]
                  /\ UNCHANGED <<documents, okAcq>>
             ELSE /\ pc' = [pc EXCEPT ![t] = next]
                  /\ documents' = [documents EXCEPT ![t] =
                                     Append(@, [source |-> url, chunks |-> outcome[2]])]
                  /\ okAcq' = [okAcq EXCEPT ![t] = @ \cup {url}]
                  /\ UNCHANGED failAcq
          /\ pos' = [pos EXCEPT ![t] = IF next = "urls" THEN @ + 1 ELSE 1]
    /\ UNCHANGED <<ledgerFile, fileKind, index, adds, calls, processed_files,
                   new_urls, new_pdfs, wrote>>

\* lines 94-100: one iteration of the PDF loop.  outcome: "error" (the loader
\* raised), "empty" (load() gave no page), "text": pages splitting into n chunks
AcquirePdf(t, outcome) ==
    /\ pc[t] = "pdfs"
    /\ LET file_path == new_pdfs[t][pos[t]]
           next == AfterPdf(t, pos[t])
       IN /\ IF outcome[1] = "error"
             THEN /\ pc' = [pc EXCEPT ![t] = OnAcquireError(next)]
                  /\ failAcq' = [failAcq EXCEPT ![t] = @ \cup {file_path}]
                  /\ UNCHANGED <<documents, okAcq>>
             ELSE IF outcome[1] = "empty"
             THEN /\ pc' = [pc EXCEPT ![t] = next]
                  /\ failAcq' = [failAcq EXCEPT ![t] = @ \cup {file_path}]
                  /\ UNCHANGED <<documents, okAcq>>
             ELSE /\ pc' = [pc EXCEPT ![t] = next]
                  /\ documents' = [documents EXCEPT ![t] =
                                     Append(@, [source |-> file_path, chunks |-> outcome[2]])]
                  /\ okAcq' = [okAcq EXCEPT ![t] = @ \cup {file_path}]
                  /\ UNCHANGED failAcq
          /\ pos' = [pos EXCEPT ![t] = IF next = "pdfs" THEN @ + 1 ELSE 1]
    /\ UNCHANGED <<ledgerFile, fileKind, index, adds, calls, processed_files,
                   new_urls, new_pdfs, wrote>>

\* a call without the check of lines 102-104
NoDocumentsUnchecked(docs) == FALSE

\* line 102: `if not documents`
NoDocuments(docs) == docs = <<>>

\* lines 102-108: return if no document was created, else split and add to the store
Write(t) ==
    /\ pc[t] = "write"
    /\ IF NoDocuments(documents[t])
       THEN /\ pc' = [pc EXCEPT ![t] = "returned"]
            /\ UNCHANGED <<index, adds, wrote>>
       ELSE /\ index' = [o \in Origins |-> index[o] + ChunksOf(documents[t], o)]
            /\ adds' = [o \in Origins |-> adds[o] + DocsOf(documents[t], o)]
            /\ wrote' = [wrote EXCEPT ![t] = Sources(documents[t])]
            /\ pc' = [pc EXCEPT ![t] = "save"]
    /\ UNCHANGED <<ledgerFile, fileKind, calls, processed_files, new_urls,
                   new_pdfs, documents, pos, okAcq, failAcq>>

\* line 111 (_save_processed_files, lines 59-62): overwrite the file
Save(t) ==
    /\ pc[t] = "save"
    /\ ledgerFile' = SavedLedger(t)
    /\ fileKind' = "list"
    /\ pc' = [pc EXCEPT ![t] = "returned"]
    /\ UNCHANGED <<index, adds, calls, processed_files, new_urls, new_pdfs,
                   documents, pos, okAcq, failAcq, wrote>>

\* ingest_endpoint, src/app.py:29-30: the request ends, the thread takes the next one
Finish(t) ==
    /\ pc[t] \in {"returned", "raised"}
    /\ pc' = [pc EXCEPT ![t] = "idle"]
    /\ processed_files' = [processed_files EXCEPT ![t] = {}]
    /\ new_urls' = [new_urls EXCEPT ![t] = <<>>]
    /\ new_pdfs' = [new_pdfs EXCEPT ![t] = <<>>]
    /\ documents' = [documents EXCEPT ![t] = <<>>]
    /\ pos' = [pos EXCEPT ![t] = 0]
    /\ okAcq' = [okAcq EXCEPT ![t] = {}]
    /\ failAcq' = [failAcq EXCEPT ![t] = {}]
    /\ wrote' = [wrote EXCEPT ![t] = {}]
    /\ UNCHANGED <<ledgerFile, fileKind, index, adds, calls>>

Outcomes ==
    {<<"error", 0>>, <<"empty", 0>>} \cup {<<"text", n>> : n \in 1..MaxChunks}

(***************************************************************************)
(* _clean_json_response and the decoding of its result                     *)
(***************************************************************************)
\* Texts are sequences of tokens: the characters "{", "}", "\n" and "x" (a
\* character of prose), and, in model outputs, one token per object member
\* (the member's key stands for the whole `"key": value` item).
Chars == {"{", "}", "x", "\n"}
MaxLen == 4         \* length of the texts _clean_json_response is applied to

SetMin(S) == CHOOSE x \in S : \A y \in S : x <= y
SetMax(S) == CHOOSE x \in S : \A y \in S : x >= y

\* `.` without re.DOTALL: every character but the newline
DotNoNewline(c) == c # "\n"

\* what `.` matches: with re.DOTALL, every character
Dot(c) == TRUE

\* the end of the match of \{.*\} that starts at i: `.*` is greedy, so the last
\* "}" that only characters matched by `.` separate from i; 0 if there is no match
MatchEnd(s, i) ==
    LET ends == {j \in (i + 1)..Len(s) :
                    /\ s[j] = "}"
                    /\ \A k \in (i + 1)..(j - 1) : Dot(s[k])}
    IN IF s[i] = "{" /\ ends # {} THEN SetMax(ends) ELSE 0

\* re.search: the match at the leftmost position that has one; "" without a match
_clean_json_response(s) ==
    LET starts == {i \in 1..Len(s) : MatchEnd(s, i) # 0}
    IN IF starts = {} THEN <<>>
       ELSE LET i == SetMin(starts) IN SubSeq(s, i, MatchEnd(s, i))

\* json.loads on a brace span: it decodes iff the span is one object whose
\* content is members and whitespace only
Whitespace == {"\n"}
Decodes(s) ==
    /\ Len(s) >= 2
    /\ s[1] = "{"
    /\ s[Len(s)] = "}"
    /\ \A k \in 2..(Len(s) - 1) : s[k] \notin {"{", "}", "x"}
\* the keys of the decoded object
DecodedKeys(s) == {s[k] : k \in 2..(Len(s) - 1)} \ Whitespace

Example1 ==
    <<"H", "e", "r", "e", " ", "i", "s", " ", "t", "h", "e", " ", "r", "e", "s",
      "u", "l", "t", ":", " ", "{", "\"", "a", "\"", ":", " ", "1", "}", " ",
      "T", "h", "a", "n", "k", "s", "!">>
Example1Span == <<"{", "\"", "a", "\"", ":", " ", "1", "}">>
Example2 ==
    <<"n", "o", " ", "b", "r", "a", "c", "e", "s", " ", "h", "e", "r", "e">>

ParseInputs == SeqsUpTo(Chars, MaxLen) \cup {Example1, Example2}

ParseIdle ==
    /\ raw_response = <<>>
    /\ cleaned = <<>>
    /\ cpc = "idle"

ParseInit ==
    /\ raw_response \in ParseInputs
    /\ cleaned = <<>>
    /\ cpc = "in"

Clean ==
    /\ cpc = "in"
    /\ cleaned' = _clean_json_response(raw_response)
    /\ cpc' = "out"
    /\ UNCHANGED raw_response

(***************************************************************************)
(* The orchestrators                                                       *)
(***************************************************************************)
MaxSegs == 4            \* segments of one origin in the store the queries read
MaxCompetitors == 2     \* length of get_market_context's competitors list

\* as_retriever() without search_kwargs retrieves the 4 most similar segments
DefaultK == 4
\* search_kwargs={"k": 5, ...} of track_narrative_evolution
CompareK == 5

SwotKeys == <<"strengths", "weaknesses", "opportunities", "threats">>
EvolutionKeys ==
    <<"sentiment_change", "new_information", "dropped_points", "summary_of_evolution">>
MemoKeys == <<"investment_thesis", "positive_catalysts", "key_risks", "conclusion">>
ContextKeys == <<"overall_sentiment", "key_competitor_moves", "major_industry_trends">>

\* The texts the generation capability may return for a prompt that asks for
\* `keys`: nothing or an object with any of the keys, between any two pads.
Pads == SeqsUpTo(Chars, 1)
RECURSIVE Members(_, _)
Members(keys, S) ==
    IF keys = <<>> THEN <<>>
    ELSE (IF Head(keys) \in S THEN <<Head(keys)>> ELSE <<>>) \o Members(Tail(keys), S)
ModelOutputs(keys) ==
    {pre \o mid \o post :
        pre \in Pads, post \in Pads,
        mid \in {<<>>} \cup {<<"{">> \o Members(keys, S) \o <<"}">> : S \in SUBSET Range(keys)}}
\* what a generation (or chain) call does: it raises, or returns a text
GenOutcomes(keys) == {<<"raise", <<>>>>} \cup {<<"text", out>> : out \in ModelOutputs(keys)}

\* Segments of one origin are alike to the orchestrators, so a set of segments
\* is the number of them per origin.
None == [o \in Origins |-> 0]
Size(segs) ==
    LET RECURSIVE Sum(_)
        Sum(S) == IF S = {} THEN 0
                  ELSE LET o == CHOOSE x \in S : TRUE IN segs[o] + Sum(S \ {o})
    IN Sum(Origins)
Union(segs1, segs2) == [o \in Origins |-> segs1[o] + segs2[o]]
\* the segments of the store; those that pass filter={"source": origin}
Segs == index
SegsOf(origin) == [o \in Origins |-> IF o = origin THEN index[o] ELSE 0]
\* similarity search: the k most similar of the candidates (all, if fewer);
\* which ones is up to the embedding
Search(cands, k) ==
    {segs \in [Origins -> 0..MaxSegs] :
        /\ \A o \in Origins : segs[o] <= cands[o]
        /\ Size(segs) = (IF Size(cands) < k THEN Size(cands) ELSE k)}
\* {doc.metadata.get('source') for doc in docs}
SourcesOf(docs) == {o \in Origins : docs[o] > 0}

NoAnswer == <<"none", <<>>>>
Dict(keys, sources, raw) ==
    [kind |-> "dict", keys |-> keys, sources |-> sources, raw_output |-> raw]
Raised == [kind |-> "raise", keys |-> {}, sources |-> {}, raw_output |-> <<>>]
NoResult == [kind |-> "none", keys |-> {}, sources |-> {}, raw_output |-> <<>>]

\* src/app.py:39-85: what the endpoint of orchestrator `name` sends for its
\* result: jsonify(result), but chart_endpoint wraps the message in a
\* {"status": "success"} object; an exception becomes the server's error reply
NoResponse == [status |-> "none", body |-> NoResult]
Endpoint(name, res) ==
    IF name = "none" THEN NoResponse
    ELSE IF res.kind = "raise" THEN [status |-> "error500", body |-> NoResult]
    ELSE IF name = "chart" THEN [status |-> "success", body |-> res]
    ELSE [status |-> "", body |-> res]

QueryIdle ==
    /\ op = "none"
    /\ args = <<"", "">>
    /\ retrieved = None
    /\ slot1 = None
    /\ slot2 = None
    /\ genCalls = 0
    /\ newsCalls = 0
    /\ answer = NoAnswer
    /\ result = NoResult
    /\ newsFail = 0
    /\ chartWrites = 0
    /\ response = NoResponse

\* the state a call leaves behind; nf: the news-search call that raised,
\* cw: the writes of chart.png
Left(name, a, docs, s1, s2, g, n, ans, res, nf, cw) ==
    /\ op' = name
    /\ args' = a
    /\ retrieved' = docs
    /\ slot1' = s1
    /\ slot2' = s2
    /\ genCalls' = g
    /\ newsCalls' = n
    /\ answer' = ans
    /\ result' = res
    /\ newsFail' = nf
    /\ chartWrites' = cw
    /\ response' = Endpoint(name, res)
Called(name, a, docs, s1, s2, g, n, ans, res) ==
    Left(name, a, docs, s1, s2, g, n, ans, res, 0, 0)

\* lines 148-154: the keys the SWOT result carries
SwotResultKeys(decoded) == decoded \cup {"sources"}
\* lines 175, 192: the evolution and memo results are the decoded object itself
PlainResultKeys(decoded) == decoded

\* lines 114-133
ask_question ==
    \E docs \in Search(Segs, DefaultK), gen \in GenOutcomes(<<>>) :
        Called("qna", <<"", "">>, docs, None, None, 1, 0, gen,
               IF gen[1] = "raise" THEN Raised
               ELSE Dict({"answer", "sources"}, SourcesOf(docs), <<>>))

\* lines 135-154
generate_swot_analysis ==
    \E docs \in Search(Segs, DefaultK), gen \in GenOutcomes(SwotKeys) :
        LET span == _clean_json_response(gen[2])
        IN Called("swot", <<"", "">>, docs, None, None, 1, 0, gen,
                  IF gen[1] = "raise" THEN Raised
                  ELSE IF Decodes(span)
                  THEN Dict(SwotResultKeys(DecodedKeys(span)), SourcesOf(docs), <<>>)
                  ELSE Dict({"error", "raw_output"}, {}, gen[2]))

\* `and` for the `or` of line 163
BothEmpty(docs1, docs2) == Size(docs1) = 0 /\ Size(docs2) = 0
\* the two contexts of line 165 exchanged
ContextsSwapped(docs1, docs2) == <<docs2, docs1>>

\* line 163: the short-circuit on an empty retrieval
EitherEmpty(docs1, docs2) == Size(docs1) = 0 \/ Size(docs2) = 0
\* lines 159-161: which retrieval fills which slot
Contexts(docs1, docs2) == <<docs1, docs2>>

\* lines 156-177
track_narrative_evolution(url1, url2) ==
    \E docs1 \in Search(SegsOf(url1), CompareK), docs2 \in Search(SegsOf(url2), CompareK),
       gen \in GenOutcomes(EvolutionKeys) :
        LET span == _clean_json_response(gen[2])
            ctx == Contexts(docs1, docs2)
        IN IF EitherEmpty(docs1, docs2)
           THEN Called("compare", <<url1, url2>>, None, None, None, 0, 0, NoAnswer,
                       Dict({"error"}, {}, <<>>))
           ELSE Called("compare", <<url1, url2>>, Union(docs1, docs2), ctx[1], ctx[2], 1, 0, gen,
                       IF gen[1] = "raise" THEN Raised
                       ELSE IF Decodes(span)
                       THEN Dict(PlainResultKeys(DecodedKeys(span)), {}, <<>>)
                       ELSE Dict({"error", "raw_output"}, {}, gen[2]))

\* compare_endpoint, src/app.py:51-57
compare_endpoint(source1, source2) == track_narrative_evolution(source1, source2)

\* lines 179-194
generate_investment_memo ==
    \E docs \in Search(Segs, DefaultK), gen \in GenOutcomes(MemoKeys) :
        LET span == _clean_json_response(gen[2])
        IN Called("memo", <<"", "">>, docs, None, None, 1, 0, gen,
                  IF gen[1] = "raise" THEN Raised
                  ELSE IF Decodes(span)
                  THEN Dict(PlainResultKeys(DecodedKeys(span)), {}, <<>>)
                  ELSE Dict({"error", "raw_output"}, {}, gen[2]))

\* a handler inside the loop of line 201 that goes on with the next item
NewsSkipped(failAt) == FALSE

\* lines 199-202, 213: get_everything is inside the try that spans the whole
\* body, so the exception of one news search leaves the loop
NewsAborts(failAt) == failAt # 0

\* lines 196-214.  n: the number of competitors; failAt: the news-search call
\* that raises (0: none does).  Every exception ends in the handler of line 213.
get_market_context(n, failAt) ==
    \E gen \in GenOutcomes(ContextKeys) :
        LET span == _clean_json_response(gen[2])
        IN IF NewsAborts(failAt)
           THEN Left("context", <<"", "">>, None, None, None, 0, failAt, NoAnswer,
                     Dict({"error"}, {}, <<>>), failAt, 0)
           ELSE Left("context", <<"", "">>, None, None, None, 1, n + 1, gen,
                     IF gen[1] = "text" /\ Decodes(span)
                     THEN Dict(PlainResultKeys(DecodedKeys(span)), {}, <<>>)
                     ELSE Dict({"error"}, {}, <<>>), failAt, 0)

\* The members of the object the extraction prompt asks for, by what the value
\* of the time period is: {} (no data point), data points that are all text,
\* data points with a number among them.
ChartKeys == <<"period_empty", "period_text", "period_number">>
\* the status string the call returns; the one of line 249 quotes the raw output
Str(status, raw) ==
    [kind |-> "str", keys |-> {status}, sources |-> {}, raw_output |-> raw]
\* line 234-235: a table of periods without a data point has no column: df.empty
TableEmpty(decoded) == decoded \subseteq {"period_empty"}
\* line 237: df.plot raises when no column is numeric
PlotRaises(decoded) == "period_number" \notin decoded

\* a handler that catches the decode error only, as lines 153, 176 and 193 do
OnChartErrorDecodeOnly(cause, raw) ==
    IF cause = "decode" THEN Str("failed", raw) ELSE Raised

\* lines 248-249: `except Exception` returns the failure string
OnChartError(cause, raw) == Str("failed", raw)

\* lines 216-249
extract_and_visualize_data ==
    \E docs \in Search(Segs, DefaultK), gen \in GenOutcomes(ChartKeys) :
        LET span == _clean_json_response(gen[2])
            data == DecodedKeys(span)
        IN IF gen[1] = "raise"
           THEN Left("chart", <<"", "">>, docs, None, None, 1, 0, gen, Raised, 0, 0)
           ELSE IF ~Decodes(span)
           THEN Left("chart", <<"", "">>, docs, None, None, 1, 0, gen,
                     OnChartError("decode", gen[2]), 0, 0)
           ELSE IF data = {}
           THEN Left("chart", <<"", "">>, docs, None, None, 1, 0, gen,
                     Str("no_data", <<>>), 0, 0)
           ELSE IF TableEmpty(data)
           THEN Left("chart", <<"", "">>, docs, None, None, 1, 0, gen,
                     Str("not_structured", <<>>), 0, 0)
           ELSE IF PlotRaises(data)
           THEN Left("chart", <<"", "">>, docs, None, None, 1, 0, gen,
                     OnChartError("plot", gen[2]), 0, 0)
           ELSE Left("chart", <<"", "">>, docs, None, None, 1, 0, gen,
                     Str("saved", <<>>), 0, 1)

(***************************************************************************)
(* Specifications                                                          *)
(***************************************************************************)
\* the store the queries read holds up to MaxSegs segments of each origin
StoreInit ==
    /\ index \in [Origins -> 0..MaxSegs]
    /\ ledgerFile = {o \in Origins : index[o] > 0}
    /\ fileKind = IF ledgerFile = {} THEN "missing" ELSE "list"
    /\ adds = [o \in Origins |-> IF index[o] > 0 THEN 1 ELSE 0]
    /\ calls = 0
    /\ pc = [t \in Threads |-> "idle"]
    /\ processed_files = [t \in Threads |-> {}]
    /\ new_urls = [t \in Threads |-> <<>>]
    /\ new_pdfs = [t \in Threads |-> <<>>]
    /\ documents = [t \in Threads |-> <<>>]
    /\ pos = [t \in Threads |-> 0]
    /\ okAcq = [t \in Threads |-> {}]
    /\ failAcq = [t \in Threads |-> {}]
    /\ wrote = [t \in Threads |-> {}]

Lists == SeqsUpTo(Origins, MaxUrls) \X SeqsUpTo(Origins, MaxPdfs)
Rest == <<parseVars, queryVars>>

\* the request threads of the server run ingest_data concurrently
Init == IngestInit /\ ParseIdle /\ QueryIdle
Next ==
    \/ \E t \in Threads, l \in Lists : Begin(t, l[1], l[2]) /\ UNCHANGED Rest
    \/ \E t \in Threads, outcome \in Outcomes : AcquireUrl(t, outcome) /\ UNCHANGED Rest
    \/ \E t \in Threads, outcome \in Outcomes : AcquirePdf(t, outcome) /\ UNCHANGED Rest
    \/ \E t \in Threads : Write(t) /\ UNCHANGED Rest
    \/ \E t \in Threads : Save(t) /\ UNCHANGED Rest
    \/ \E t \in Threads : Finish(t) /\ UNCHANGED Rest
Spec == Init /\ [][Next]_vars

\* one ingest_data call at a time, all on one thread (the command loop of
\* final_bot.py)
MainThread == CHOOSE t \in Threads : TRUE
NextSeq ==
    \/ \E l \in Lists : Begin(MainThread, l[1], l[2]) /\ UNCHANGED Rest
    \/ \E outcome \in Outcomes : AcquireUrl(MainThread, outcome) /\ UNCHANGED Rest
    \/ \E outcome \in Outcomes : AcquirePdf(MainThread, outcome) /\ UNCHANGED Rest
    \/ Write(MainThread) /\ UNCHANGED Rest
    \/ Save(MainThread) /\ UNCHANGED Rest
    \/ Finish(MainThread) /\ UNCHANGED Rest
SpecSeq == Init /\ [][NextSeq]_vars

\* ingest_data, one call at a time, started on any processed_files.json
FileInit ==
    /\ fileKind \in FileKinds
    /\ ledgerFile \in (IF fileKind \in {"list", "object"} THEN SUBSET Origins ELSE {{}})
    /\ index = [o \in Origins |-> IF o \in ledgerFile THEN 1 ELSE 0]
    /\ adds = index
    /\ calls = 0
    /\ pc = [t \in Threads |-> "idle"]
    /\ processed_files = [t \in Threads |-> {}]
    /\ new_urls = [t \in Threads |-> <<>>]
    /\ new_pdfs = [t \in Threads |-> <<>>]
    /\ documents = [t \in Threads |-> <<>>]
    /\ pos = [t \in Threads |-> 0]
    /\ okAcq = [t \in Threads |-> {}]
    /\ failAcq = [t \in Threads |-> {}]
    /\ wrote = [t \in Threads |-> {}]
InitLoad == FileInit /\ ParseIdle /\ QueryIdle
SpecLoad == InitLoad /\ [][NextSeq]_vars

\* _clean_json_response applied to a text
InitParse == IngestInit /\ ParseInit /\ QueryIdle
NextParse == Clean /\ UNCHANGED <<ingestVars, queryVars>>
SpecParse == InitParse /\ [][NextParse]_vars

\* the endpoint hands the result to the client (src/app.py:39, 48, 57, 66, 75)
Respond ==
    /\ op # "none"
    /\ Called("none", <<"", "">>, None, None, None, 0, 0, NoAnswer, NoResult)

\* the orchestrators called on a store, one call at a time
Others == <<ingestVars, parseVars>>
Fresh == op = "none"
InitQuery == StoreInit /\ ParseIdle /\ QueryIdle
NextQuery ==
    \/ Fresh /\ ask_question /\ UNCHANGED Others
    \/ Fresh /\ generate_swot_analysis /\ UNCHANGED Others
    \/ \E source1 \in Origins, source2 \in Origins :
          Fresh /\ compare_endpoint(source1, source2) /\ UNCHANGED Others
    \/ Fresh /\ generate_investment_memo /\ UNCHANGED Others
    \/ \E n \in 0..MaxCompetitors, failAt \in 0..(MaxCompetitors + 1) :
          Fresh /\ failAt <= n + 1 /\ get_market_context(n, failAt) /\ UNCHANGED Others
    \/ Fresh /\ extract_and_visualize_data /\ UNCHANGED Others
    \/ Respond /\ UNCHANGED Others
SpecQuery == InitQuery /\ [][NextQuery]_vars

(***************************************************************************)
(* Properties                                                              *)
(***************************************************************************)
InCall(t) == pc[t] \in {"urls", "pdfs", "write", "save"}
NewOf(t) == Range(new_urls[t]) \cup Range(new_pdfs[t])

\* C1: over any sequence of ingest_data calls (lists that repeat an origin
\* included) the document of an origin is added to the index at most once, and
\* a call never acquires an origin that was in the ledger when it started.
C1_AddedAtMostOnce ==
    /\ \A o \in Origins : adds[o] <= 1
    /\ \A t \in Threads : InCall(t) => NewOf(t) \cap processed_files[t] = {}

\* C2: two concurrent ingest_data calls are never both past the ledger check
\* for the same origin before either has written the ledger, and so never both
\* add that origin to the index.
C2_NoDoubleCheckPass ==
    \A t \in Threads : \A u \in Threads \ {t} :
        /\ ~(InCall(t) /\ InCall(u) /\ NewOf(t) \cap NewOf(u) # {})
        /\ wrote[t] \cap wrote[u] = {}

\* C3: every origin in the persisted ledger has a segment in the index, and a
\* finished call has not marked an origin whose acquisition only failed in it.
C3_LedgerOnlyAfterWrite ==
    /\ \A o \in ledgerFile : index[o] > 0
    /\ \A t \in Threads :
          pc[t] = "returned" => (failAcq[t] \ okAcq[t]) \cap ledgerFile = {}

\* C4: an acquisition error never makes ingest_data raise, and every origin of
\* the batch that was acquired is written to the index by the same call.
C4_FetchErrorIsLocal ==
    \A t \in Threads :
        /\ pc[t] # "raised"
        /\ pc[t] \in {"save", "returned"} =>
              /\ okAcq[t] \subseteq wrote[t]
              /\ \A o \in okAcq[t] : index[o] > 0
\* a finished call in which one origin failed and another was written
C4_Witness ==
    \E t \in Threads :
        /\ pc[t] = "returned"
        /\ failAcq[t] \ okAcq[t] # {}
        /\ okAcq[t] # {}
        /\ wrote[t] = okAcq[t]

\* the specification of the span: from the first "{" to the last "}"
Opens(s) == {i \in 1..Len(s) : s[i] = "{"}
Closes(s) == {i \in 1..Len(s) : s[i] = "}"}
HasSpan(s) == Opens(s) # {} /\ \E j \in Closes(s) : j > SetMin(Opens(s))
BraceSpan(s) ==
    IF HasSpan(s) THEN SubSeq(s, SetMin(Opens(s)), SetMax(Closes(s))) ELSE <<>>

\* C5: _clean_json_response returns the text from the first "{" to the last "}"
\* (newlines included) when a "}" follows the first "{", and "" otherwise, which
\* does not decode; the two examples give '{"a": 1}' and ''.
C5_CleanIsBraceSpan ==
    cpc = "out" =>
        /\ cleaned = BraceSpan(raw_response)
        /\ ~HasSpan(raw_response) => cleaned = <<>> /\ ~Decodes(cleaned)
        /\ raw_response = Example1 => cleaned = Example1Span
        /\ raw_response = Example2 => cleaned = <<>>
\* a text with a newline and an inner "}" between the first "{" and the last "}"
C5_Witness ==
    /\ cpc = "out"
    /\ raw_response = <<"{", "\n", "}", "}">>
    /\ cleaned = raw_response

Structured == {"swot", "compare", "memo", "context"}
ParseFailed == answer[1] = "text" /\ ~Decodes(_clean_json_response(answer[2]))
ParseOk == answer[1] = "text" /\ Decodes(_clean_json_response(answer[2]))

\* C6: when the model's output has no brace span or the span does not decode,
\* every structured orchestrator returns a result with an 'error' field that
\* carries the model's raw text.
C6_ParseFailureCarriesRaw ==
    (op \in Structured /\ ParseFailed) =>
        /\ result.kind = "dict"
        /\ "error" \in result.keys
        /\ "raw_output" \in result.keys
        /\ result.raw_output = answer[2]

\* C7: track_narrative_evolution with an empty retrieval for source1 or for
\* source2 returns an error result and calls generation zero times.
C7_ShortCircuit ==
    (op = "compare" /\ (index[args[1]] = 0 \/ index[args[2]] = 0)) =>
        /\ genCalls = 0
        /\ result.kind = "dict"
        /\ "error" \in result.keys
\* source1 has segments, source2 has none
C7_Witness ==
    /\ op = "compare"
    /\ index[args[1]] > 0
    /\ index[args[2]] = 0
    /\ genCalls = 0
    /\ "error" \in result.keys

\* C8: when track_narrative_evolution calls generation, 'Document 1' holds the
\* segments retrieved under source = source1 and 'Document 2' those retrieved
\* under source = source2.
C8_SlotsInOrder ==
    (op = "compare" /\ genCalls = 1) =>
        /\ slot1 \in Search(SegsOf(args[1]), CompareK)
        /\ slot2 \in Search(SegsOf(args[2]), CompareK)
        /\ \A o \in Origins \ {args[1]} : slot1[o] = 0
        /\ \A o \in Origins \ {args[2]} : slot2[o] = 0
\* a comparison of two different sources that reached generation
C8_Witness ==
    /\ op = "compare"
    /\ genCalls = 1
    /\ args[1] # args[2]
    /\ slot1[args[1]] > 0
    /\ slot2[args[2]] > 0
    /\ slot1 # slot2

\* C9: a SWOT call that retrieved a segment and whose output decodes returns
\* the four keys and a non-empty 'sources' of indexed origins.
C9_SwotHasFourKeys ==
    (op = "swot" /\ Size(retrieved) > 0 /\ ParseOk) =>
        /\ Range(SwotKeys) \subseteq result.keys
        /\ "sources" \in result.keys
        /\ result.sources # {}
        /\ \A o \in result.sources : index[o] > 0

\* C10: every successful result of ask_question, generate_swot_analysis,
\* track_narrative_evolution and generate_investment_memo has a 'sources' field
\* equal to the set of origins of the retrieved segments.
C10_SourcesAttached ==
    (/\ op \in {"qna", "swot", "compare", "memo"}
     /\ result.kind = "dict"
     /\ "error" \notin result.keys) =>
        /\ "sources" \in result.keys
        /\ result.sources = SourcesOf(retrieved)

Analytical(keys) == keys \ {"error", "raw_output", "sources"}

\* C11: in get_market_context a failed news search or a failed generation ends
\* the call with a returned result that holds an error and no analytical field;
\* after the news search that failed no other is made, and generation is not
\* called.
C11_ContextAborts ==
    (op = "context" /\ (newsFail # 0 \/ answer[1] = "raise")) =>
        /\ result.kind = "dict"
        /\ "error" \in result.keys
        /\ Analytical(result.keys) = {}
        /\ newsFail # 0 => newsCalls = newsFail /\ genCalls = 0 /\ answer = NoAnswer
\* the first of several news searches failed
C11_Witness ==
    /\ op = "context"
    /\ newsFail = 1
    /\ newsCalls = 1
    /\ genCalls = 0
    /\ result.keys = {"error"}
\* generation failed after every news search succeeded
C11_WitnessGeneration ==
    /\ op = "context"
    /\ newsFail = 0
    /\ answer[1] = "raise"
    /\ result.keys = {"error"}

\* C12: when the generation (or retrieval-chain) call fails in ask_question,
\* generate_swot_analysis, track_narrative_evolution or
\* generate_investment_memo, the call returns a result with an 'error' field and
\* no analytical field.
C12_GenerationFailureReturned ==
    (op \in {"qna", "swot", "compare", "memo"} /\ answer[1] = "raise") =>
        /\ result.kind = "dict"
        /\ "error" \in result.keys
        /\ Analytical(result.keys) = {}

\* C13: a missing or malformed processed_files.json never makes ingest_data
\* fail: whatever the file is, unless it is a list of strings the ledger is
\* loaded as the empty set.
C13_LoadTolerant ==
    \A t \in Threads :
        /\ pc[t] # "raised"
        /\ (InCall(t) /\ fileKind # "list") => processed_files[t] = {}

\* C16: the persisted ledger only grows: no step of any interleaving of
\* ingest_data calls removes an origin from processed_files.json.
C16_LedgerOnlyGrows == [][ledgerFile \subseteq ledgerFile']_vars

Stepped(t) == pc'[t] # pc[t] \/ pos'[t] # pos[t]
Untouched == index' = index /\ ledgerFile' = ledgerFile /\ fileKind' = fileKind

\* C17: a call whose origins are all in the ledger (or whose lists are empty)
\* returns at once, without an acquisition; no acquisition step writes; and a
\* call none of whose new origins gave a document returns from line 104: in
\* both cases the index and processed_files.json stay as they were and the
\* call never reaches the ledger write.
C17_NoOpFrames ==
    [][\A t \in Threads :
          /\ (pc[t] = "idle" /\ pc'[t] # "idle") =>
                /\ Untouched
                /\ (new_urls'[t] = <<>> /\ new_pdfs'[t] = <<>>) =>
                      pc'[t] = "returned" /\ okAcq'[t] \cup failAcq'[t] = {}
          /\ (pc[t] \in {"urls", "pdfs"} /\ Stepped(t)) => Untouched
          /\ (pc[t] = "write" /\ okAcq[t] = {} /\ Stepped(t)) =>
                Untouched /\ pc'[t] = "returned"
          /\ (pc[t] # "save" /\ pc'[t] = "save") => okAcq[t] # {}]_vars
\* a finished call all of whose acquisitions failed, on a store and a ledger
\* that another call had filled
C17_Witness ==
    \E t \in Threads :
        /\ pc[t] = "returned"
        /\ failAcq[t] # {}
        /\ okAcq[t] = {}
        /\ ledgerFile # {}
        /\ failAcq[t] \cap ledgerFile = {}

ChartSpan == _clean_json_response(answer[2])

\* C14: once generation has returned, extract_and_visualize_data returns a
\* status string whatever the model's output is, and chart.png is written only
\* when the success status is returned: not when the output has no brace span,
\* does not decode, is an empty object or yields an empty table.
C14_ChartNeverRaises ==
    (op = "chart" /\ answer[1] = "text") =>
        /\ result.kind = "str"
        /\ chartWrites = (IF result.keys = {"saved"} THEN 1 ELSE 0)
        /\ (\/ ~Decodes(ChartSpan)
            \/ DecodedKeys(ChartSpan) = {}
            \/ TableEmpty(DecodedKeys(ChartSpan))) => chartWrites = 0
\* the output decodes to periods without a data point: the table is empty
C14_Witness ==
    /\ op = "chart"
    /\ answer[1] = "text"
    /\ Decodes(ChartSpan)
    /\ DecodedKeys(ChartSpan) = {"period_empty"}
    /\ result = Str("not_structured", <<>>)
    /\ chartWrites = 0

ErrorShape(res) ==
    \/ res.kind = "dict" /\ "error" \in res.keys
    \/ res.kind = "str" /\ res.keys # {"saved"}

\* C15: every endpoint delivers the result its orchestrator returned, an error
\* result as that error and never labelled a success.
C15_PassThrough ==
    (op # "none" /\ result.kind \in {"dict", "str"}) =>
        /\ response.body = result
        /\ ErrorShape(result) => response.status # "success"

====
